---- MODULE Spec2Model ----
(***************************************************************************)
(* State-machine model of frontend/app.js, the browser client of the      *)
(* School Equipment Lending Portal.                                        *)
(*                                                                         *)
(* The script is single threaded and event driven.  Every handler runs    *)
(* synchronously up to its next `await`; the part after the `await` runs  *)
(* when the network call resolves.  One action of the model is one such   *)
(* synchronous run: a user event (a click, a submit) or the resolution of *)
(* one call in flight.  The server, the user and the date are the         *)
(* environment: their choices are drawn with \E from small sets.          *)
(***************************************************************************)
EXTENDS Integers, Sequences, FiniteSets, Bags, TLC

\* JavaScript null and undefined (a missing property), as strings so that
\* they compare with the string values they stand beside.
Null == "null"
Absent == "undefined"

\* ---------------------------------------------------------------------------
\* Bounds of the model
\* ---------------------------------------------------------------------------

\* User events (clicks, submits, prompts) one run of the whole page takes.
MaxEvents == 1

\* User events one run of logging in and out takes.
MaxSessionEvents == 3

\* ---------------------------------------------------------------------------
\* JavaScript helpers
\* ---------------------------------------------------------------------------

\* ToBoolean on the values the model uses: undefined, null and "" are falsy.
Falsy(v) == v \in {Absent, Null, ""}

\* a || b
OrElse(a, b) == IF Falsy(a) THEN b ELSE a

RECURSIVE SeqFold(_, _, _)
\* Array.prototype.forEach over list, threading the accumulator acc through
\* f(acc, element).
SeqFold(f(_, _), acc, list) ==
    IF list = <<>> THEN acc
    ELSE SeqFold(f, f(acc, Head(list)), Tail(list))

\* ---------------------------------------------------------------------------
\* Server responses and the authenticated transport (apiFetch)
\* ---------------------------------------------------------------------------

\* HTTP 204 No Content, the status apiFetch does not parse a body for.
NoContent == 204

\* A JSON body: the fields the script reads from any body.  A field the body
\* does not carry is Absent; list is the array of an array body.
Body(detail, list, access_token, role) ==
    [detail |-> detail, list |-> list, access_token |-> access_token, role |-> role]

NoBody == Body(Absent, <<>>, Absent, Absent)

\* A response as the script sees it: the status, whether the body text parses
\* as JSON (response.json() rejects with a SyntaxError when it does not), and
\* the parsed body.
Response(status, parses, body) ==
    [status |-> status, parses |-> parses, body |-> body]

\* response.ok of the Fetch API: the status is in the range 200-299.
ResponseOk(response) == response.status \in 200..299

\* The message of the SyntaxError response.json() rejects with.
JsonSyntaxError == "Unexpected token in JSON"

\* Outcomes of an awaited call: an error thrown with a message, or a value.
\* parsed records whether response.json() was called.
Throw(message, parsed) ==
    [tag |-> "throw", message |-> message, value |-> NoBody, parsed |-> parsed]

Return(tag, value, parsed) ==
    [tag |-> tag, message |-> "", value |-> value, parsed |-> parsed]

\* apiFetch setting Content-Type on every request: a faulty variant, to compare ApiHeaders with.
ApiHeadersAlwaysJson(tok, body) ==
    [Authorization |-> "Bearer " \o tok, ContentType |-> "application/json"]

\* The headers apiFetch builds for a call made while the credential was tok;
\* body is the options' body, Absent when the options have none.
ApiHeaders(tok, body) ==
    [Authorization |-> "Bearer " \o tok,
     ContentType |-> IF ~Falsy(body) THEN "application/json" ELSE Absent]

\* apiFetch without `if (!response.ok)`: a faulty variant, to compare ApiFetch with.
ApiFetchIgnoresStatus(response) ==
    IF response.status = NoContent
    THEN Return("null", NoBody, FALSE)
    ELSE IF ~response.parses
         THEN Throw(JsonSyntaxError, TRUE)
         ELSE Return("json", response.body, TRUE)

\* apiFetch after `await fetch(...)`: what the call resolves to, or throws.
ApiFetch(response) ==
    IF ~ResponseOk(response)
    THEN IF ~response.parses
         THEN Throw(JsonSyntaxError, TRUE)
         ELSE Throw(OrElse(response.body.detail, "An API error occurred"), TRUE)
    ELSE IF response.status = NoContent
         THEN Return("null", NoBody, FALSE)
         ELSE IF ~response.parses
              THEN Throw(JsonSyntaxError, TRUE)
              ELSE Return("json", response.body, TRUE)

\* The raw fetch without `if (!response.ok)`: a faulty variant, to compare RawFetch with.
RawFetchIgnoresStatus(response, fallback) ==
    IF ~response.parses
    THEN Throw(JsonSyntaxError, TRUE)
    ELSE Return("json", response.body, TRUE)

\* The register and login handlers call fetch themselves: they parse the body
\* first, whatever the status, and then throw on a non-2xx status.
RawFetch(response, fallback) ==
    IF ~response.parses
    THEN Throw(JsonSyntaxError, TRUE)
    ELSE IF ~ResponseOk(response)
         THEN Throw(OrElse(response.body.detail, fallback), TRUE)
         ELSE Return("json", response.body, TRUE)

\* ---------------------------------------------------------------------------
\* Rendering: the markup each list function writes into its table body
\* ---------------------------------------------------------------------------

\* innerHTML of a table body is a sequence of rows; a row is its cells' text
\* and its controls.  A control is a button (with the call of its onclick and
\* that call's argument) or an input (with its element id and value).
Button(label, call, arg, disabled) ==
    [tag |-> "button", label |-> label, call |-> call, arg |-> arg,
     disabled |-> disabled, value |-> ""]

DateInput(requestId, value) ==
    [tag |-> "input", label |-> "return-date", call |-> "", arg |-> requestId,
     disabled |-> FALSE, value |-> value]

TableRow(cells, controls) == [cells |-> cells, controls |-> controls]

\* A row of one cell spanning the table, shown for an empty list.
Placeholder(text) == TableRow(<<text>>, <<>>)

EquipmentRow(html, item) ==
    Append(html, TableRow(
        <<item.name, item.category, ToString(item.available_quantity), item.status>>,
        <<Button("Request", "requestItem", item.equipment_id,
                 item.available_quantity <= 0 \/ item.status # "available")>>))

\* loadStudentEquipment without `tbody.innerHTML = ''`: a faulty variant, to compare RenderStudentEquipment with.
RenderStudentEquipmentNoClear(tbody, equipment) ==
    IF Len(equipment) = 0
    THEN <<Placeholder("No equipment available.")>>
    ELSE SeqFold(EquipmentRow, tbody, equipment)

\* loadStudentEquipment after its fetch: tbody is the table's content before.
RenderStudentEquipment(tbody, equipment) ==
    LET cleared == <<>>
    IN  IF Len(equipment) = 0
        THEN <<Placeholder("No equipment available.")>>
        ELSE SeqFold(EquipmentRow, cleared, equipment)

\* The row offering Return for every request not yet returned: a faulty variant, to compare StudentRequestRow with.
StudentRequestRowReturnAnyOpen(html, req) ==
    Append(html, TableRow(
        <<ToString(req.request_id), ToString(req.equipment_id), req.status,
          req.expected_return_date>>,
        IF req.status # "returned"
        THEN <<Button("Return", "returnItem", req.request_id, FALSE),
               Button("Report Damage", "reportDamage", req.equipment_id, FALSE)>>
        ELSE <<>>))

StudentRequestRow(html, req) ==
    Append(html, TableRow(
        <<ToString(req.request_id), ToString(req.equipment_id), req.status,
          req.expected_return_date>>,
        (IF req.status = "approved"
         THEN <<Button("Return", "returnItem", req.request_id, FALSE)>>
         ELSE <<>>)
        \o
        (IF req.status # "returned"
         THEN <<Button("Report Damage", "reportDamage", req.equipment_id, FALSE)>>
         ELSE <<>>)))

\* loadStudentRequests after its fetch.
RenderStudentRequests(tbody, requests) ==
    LET cleared == <<>>
    IN  IF Len(requests) = 0
        THEN <<Placeholder("You have no requests.")>>
        ELSE SeqFold(StudentRequestRow, cleared, requests)

PendingRow(html, req) ==
    Append(html, TableRow(
        <<ToString(req.request_id), ToString(req.user_id), ToString(req.equipment_id),
          req.expected_return_date>>,
        <<DateInput(req.request_id, req.expected_return_date),
          Button("Approve", "adminApprove", req.request_id, FALSE),
          Button("Reject", "adminReject", req.request_id, FALSE)>>))

\* loadAdminPending without `tbody.innerHTML = ''`: a faulty variant, to compare RenderAdminPending with.
RenderAdminPendingNoClear(tbody, requests) ==
    IF Len(requests) = 0
    THEN <<Placeholder("No pending requests.")>>
    ELSE SeqFold(PendingRow, tbody, requests)

\* loadAdminPending after its fetch.
RenderAdminPending(tbody, requests) ==
    LET cleared == <<>>
    IN  IF Len(requests) = 0
        THEN <<Placeholder("No pending requests.")>>
        ELSE SeqFold(PendingRow, cleared, requests)

InventoryRow(html, item) ==
    Append(html, TableRow(
        <<ToString(item.equipment_id), item.name,
          ToString(item.available_quantity) \o " / " \o ToString(item.total_quantity),
          item.status>>,
        <<Button("Delete", "adminDeleteItem", item.equipment_id, FALSE)>>))

\* loadAdminInventory after its fetch: no placeholder for an empty list.
RenderAdminInventory(tbody, equipment) ==
    LET cleared == <<>>
    IN  SeqFold(InventoryRow, cleared, equipment)

OverdueRow(html, item) ==
    Append(html, TableRow(
        <<ToString(item.request_id), ToString(item.user_id), ToString(item.equipment_id),
          item.status>>,
        <<>>))

RenderOverdue(tbody, overdue) ==
    LET cleared == <<>>
    IN  SeqFold(OverdueRow, cleared, overdue)

RepairRow(html, item) ==
    Append(html, TableRow(
        <<ToString(item.repair_id), ToString(item.equipment_id), item.description,
          item.repair_status>>,
        IF item.repair_status = "pending"
        THEN <<Button("Complete", "adminCompleteRepair", item.repair_id, FALSE)>>
        ELSE <<>>))

RenderRepairs(tbody, repairs) ==
    LET cleared == <<>>
    IN  SeqFold(RepairRow, cleared, repairs)

AnalyticsRow(html, item) ==
    Append(html, TableRow(
        <<ToString(item.equipment_id), item.name, ToString(item.request_count)>>,
        <<>>))

RenderAnalytics(tbody, analytics) ==
    LET cleared == <<>>
    IN  SeqFold(AnalyticsRow, cleared, analytics)


\* ---------------------------------------------------------------------------
\* The environment: what the server may answer
\* ---------------------------------------------------------------------------

Tokens == {"t1", "t2"}

\* 'admin' selects the admin dashboard; every other role the student one.
Roles == {"admin", "student", "teacher"}

Ball ==
    [equipment_id |-> 7, name |-> "Ball", category |-> "Sports",
     available_quantity |-> 2, total_quantity |-> 3, status |-> "available"]

BorrowRequest(status) ==
    [request_id |-> 1, user_id |-> 4, equipment_id |-> 7, status |-> status,
     expected_return_date |-> "2024-02-03"]

Repair ==
    [repair_id |-> 5, equipment_id |-> 7, description |-> "cracked",
     repair_status |-> "pending"]

Usage == [equipment_id |-> 7, name |-> "Ball", request_count |-> 3]

\* A 2xx response with a JSON body.
OkJson(body) == Response(200, TRUE, body)

OkList(list) == OkJson(Body(Absent, list, Absent, Absent))

\* The error response of the API: a non-2xx status and a JSON body with a
\* detail.
ErrorResponses == {Response(400, TRUE, Body("bad input", <<>>, Absent, Absent))}

\* The calls the script makes, by the handler that awaits them.
ListKinds == {"equipment", "my-requests", "pending", "inventory"}

ReportParts == {"overdue", "repairs", "analytics"}

ActionKinds ==
    {"request", "return", "report-damage", "approve", "reject", "add-equipment",
     "delete", "check-overdue", "complete-repair"}

\* The arrays a list endpoint may answer with.
ListsOf(kind) ==
    CASE kind = "equipment" -> {<<>>, <<Ball>>}
      [] kind = "inventory" -> {<<Ball>>}
      [] kind = "my-requests" -> {<<BorrowRequest("approved")>>}
      [] kind = "pending" -> {<<BorrowRequest("pending")>>}
      [] kind = "check-overdue" -> {<<BorrowRequest("overdue")>>}
      [] kind = "overdue" -> {<<BorrowRequest("overdue")>>}
      [] kind = "repairs" -> {<<Repair>>}
      [] kind = "analytics" -> {<<Usage>>}

\* The responses the server may give to a call of each kind.
ResponsesTo(kind) ==
    ErrorResponses \cup
    CASE kind = "token" ->
             {OkJson(Body(Absent, <<>>, t, Absent)) : t \in Tokens}
      [] kind = "me" ->
             {OkJson(Body(Absent, <<>>, Absent, r)) : r \in Roles}
      [] kind \in ListKinds \cup ReportParts \cup {"check-overdue"} ->
             {OkList(l) : l \in ListsOf(kind)}
      [] kind = "delete" -> {Response(NoContent, FALSE, NoBody)}
      [] OTHER -> {OkJson(NoBody)}

\* ---------------------------------------------------------------------------
\* State
\* ---------------------------------------------------------------------------

VARIABLES
    pc,        \* "load" while the script's top level runs, "run" after init()
    token,     \* the module-level credential (line 2)
    userRole,  \* the module-level role (line 3)
    storage,   \* localStorage's 'token' key, Null when the key is not there
    display,   \* style.display of the elements showPage shows and hides
    message,   \* the global message area: its text and its class
    tables,    \* innerHTML of each table body
    inflight,  \* the calls awaiting their response, a bag
    left,      \* user events the run may still take
    probe      \* a function of the script on its own: an input and what it makes of it

vars ==
    <<pc, token, userRole, storage, display, message, tables, inflight,
      left, probe>>

Pages == {"auth-container", "student-dashboard", "admin-dashboard"}

Elements == Pages \cup {"logout-button"}

TableIds ==
    {"equipment-list-tbody", "my-requests-tbody", "admin-pending-tbody",
     "admin-inventory-tbody", "overdue-tbody", "repairs-tbody", "analytics-tbody"}

Tabs == {"pending", "equipment", "reports"}

TableOf(kind) ==
    CASE kind = "equipment" -> "equipment-list-tbody"
      [] kind = "my-requests" -> "my-requests-tbody"
      [] kind = "pending" -> "admin-pending-tbody"
      [] kind = "inventory" -> "admin-inventory-tbody"
      [] kind = "overdue" -> "overdue-tbody"
      [] kind = "repairs" -> "repairs-tbody"
      [] kind = "analytics" -> "analytics-tbody"

\* ---------------------------------------------------------------------------
\* Calls in flight
\* ---------------------------------------------------------------------------

\* One of the three fetches of loadAdminReports: "pending", resolved "ok"
\* with its list, resolved to "null", or "fail".
Part(st, list) == [st |-> st, list |-> list]

NoParts == [p \in ReportParts |-> Part("none", <<>>)]

PendingParts == [p \in ReportParts |-> Part("pending", <<>>)]

NoAuthHeaders(contentType) == [Authorization |-> Absent, ContentType |-> contentType]

\* A call awaiting its response, with what its continuation keeps.
\*   kind       the handler awaiting it
\*   headers    the headers it left with
\*   body       the body it left with, Absent when it has none
\*   tok        the credential at the time it left through apiFetch
\*   origin     for the role lookup: "init" or "login"
\*   since      for the role lookup, what happened since it left: "none",
\*              "net" (another /token or /users/me/ call resolved) or "user"
\*              (a user event); kept for observation only
\*   overtaken  a later fetch of the same list has left meanwhile; kept for
\*              observation only
\*   parts      for the reports: the three fetches of Promise.all
\*   settled    for the reports: Promise.all has rejected
RawCall(kind, contentType, body) ==
    [kind |-> kind, headers |-> NoAuthHeaders(contentType), body |-> body,
     tok |-> Absent, origin |-> "", since |-> "none", overtaken |-> FALSE,
     parts |-> NoParts, settled |-> FALSE]

\* apiFetch(endpoint, options) up to its `await fetch`, called while the
\* credential is tok.
ApiCall(kind, tok, body) ==
    [kind |-> kind, headers |-> ApiHeaders(tok, body), body |-> body,
     tok |-> tok, origin |-> "", since |-> "none", overtaken |-> FALSE,
     parts |-> NoParts, settled |-> FALSE]

\* The calls of one list function.  loadAdminReports sends three at once and
\* awaits them together.
LoadCall(load, tok) ==
    IF load = "reports"
    THEN [ApiCall("reports", tok, Absent) EXCEPT !.parts = PendingParts]
    ELSE ApiCall(load, tok, Absent)

LoadsCalls(loads, tok) == [i \in 1..Len(loads) |-> LoadCall(loads[i], tok)]

\* The role lookup of loadUserDashboard(), called from origin.
MeCall(tok, origin) == [ApiCall("me", tok, Absent) EXCEPT !.origin = origin]

\* The bag after the calls in new (a sequence) join it; the calls in flight
\* for the same lists are now overtaken.
Issue(bag, new) ==
    LET kinds == {new[i].kind : i \in 1..Len(new)}
        Mark(c) == IF c.kind \in kinds THEN [c EXCEPT !.overtaken = TRUE] ELSE c
        Add(b, c) == b (+) SetToBag({c})
        marked == IF \E c \in BagToSet(bag) : c.kind \in kinds
                  THEN BagOfAll(Mark, bag) ELSE bag
    IN  SeqFold(Add, marked, new)

\* The bag with one copy of call c taken out.
Take(bag, c) == bag (-) SetToBag({c})

\* Role lookups in flight see a user event, or another resolution.
Disturb(bag, by) ==
    LET Mark(c) ==
            IF c.kind = "me" /\ c.since # "user" THEN [c EXCEPT !.since = by] ELSE c
    IN  IF \E c \in BagToSet(bag) : c.kind = "me" /\ c.since \notin {by, "user"}
        THEN BagOfAll(Mark, bag) ELSE bag

\* The number of calls of a kind in flight; a reports call counts for each of
\* its three lists.
InFlight(bag, kind) ==
    LET of == {c \in BagToSet(bag) :
                  \/ c.kind = kind
                  \/ c.kind = "reports" /\ kind \in ReportParts
                                        /\ c.parts[kind].st = "pending"}
        RECURSIVE Sum(_)
        Sum(S) == IF S = {} THEN 0
                  ELSE LET c == CHOOSE x \in S : TRUE
                       IN  CopiesIn(c, bag) + Sum(S \ {c})
    IN  Sum(of)

\* ---------------------------------------------------------------------------
\* Helpers of the script
\* ---------------------------------------------------------------------------

\* showMessage(message, type)
showMessage(text, type) == [text |-> text, type |-> type]

\* hideAllPages()
hideAllPages(d) ==
    [d EXCEPT !["auth-container"] = "none", !["student-dashboard"] = "none",
              !["admin-dashboard"] = "none", !["logout-button"] = "none"]

\* showPage without hideAllPages(): a faulty variant, to compare showPage with.
showPageNoHide(d, pageId) ==
    LET shown == [d EXCEPT ![pageId] = "block"]
    IN  IF pageId # "auth-container"
        THEN [shown EXCEPT !["logout-button"] = "block"]
        ELSE shown

\* showPage(pageId)
showPage(d, pageId) ==
    LET shown == [hideAllPages(d) EXCEPT ![pageId] = "block"]
    IN  IF pageId # "auth-container"
        THEN [shown EXCEPT !["logout-button"] = "block"]
        ELSE shown

\* localStorage.setItem('token', value), removeItem('token') and
\* getItem('token'): the key after the call, and the value read.
\* setItem of a key other than 'token': a faulty variant, to compare setItem with.
setItemOtherKey(store, value) == store

setItem(store, value) == value

\* removeItem of a key other than 'token': a faulty variant, to compare removeItem with.
removeItemOtherKey(store) == store

removeItem(store) == Null

\* getItem of a key other than 'token': a faulty variant, to compare getItem with.
getItemOtherKey(store) == Null

getItem(store) == store

\* An element the user can act on: one the script has put on display.  The
\* page's markup and style sheet are not part of the script; the script shows
\* every page itself before it is used (init, loadUserDashboard).
Visible(e) == display[e] = "block"

\* loadStudentData() and loadAdminData(): the list functions each starts.
loadStudentData == <<"equipment", "my-requests">>

loadAdminData == <<"pending", "inventory", "reports">>

\* A mutating handler without its reloads: a faulty variant, to compare Reloads with.
ReloadsNone(kind) == <<>>

\* The list functions a mutating handler calls after its call succeeded.
Reloads(kind) ==
    CASE kind \in {"request", "return", "report-damage"} -> loadStudentData
      [] kind \in {"approve", "reject"} -> <<"pending">>
      [] kind \in {"add-equipment", "delete"} -> <<"inventory">>
      [] kind \in {"check-overdue", "complete-repair"} -> <<"reports">>

\* The message a mutating handler shows after its call succeeded.
SuccessText(kind, value) ==
    CASE kind = "request" -> "Request submitted successfully!"
      [] kind = "return" -> "Item returned successfully!"
      [] kind = "report-damage" -> "Damage reported. Thank you."
      [] kind = "approve" -> "Request approved."
      [] kind = "reject" -> "Request rejected."
      [] kind = "add-equipment" -> "Equipment added."
      [] kind = "delete" -> "Equipment deleted."
      [] kind = "check-overdue" ->
             ToString(Len(value.list)) \o " item(s) marked as overdue."
      [] kind = "complete-repair" -> "Repair marked as complete."

\* The message of the TypeError a property read of null throws.
NullTypeError == "Cannot read properties of null"

\* The transport is not under test in the runs of the page.
NoProbe == [response |-> Response(0, FALSE, NoBody), result |-> Throw("", FALSE),
            done |-> FALSE]

\* ---------------------------------------------------------------------------
\* Initial state and bootstrap
\* ---------------------------------------------------------------------------

\* The page as loaded, before the script's last line runs init(): the
\* credential of an earlier session may be in storage; no inline style is
\* set, the message area and the tables are empty.
Loaded ==
    /\ pc = "load"
    /\ token = Null
    /\ userRole = Null
    /\ storage \in {Null, "t1"}
    /\ display = [e \in Elements |-> "unset"]
    /\ message = showMessage("", "")
    /\ tables = [t \in TableIds |-> <<>>]
    /\ inflight = EmptyBag

Init == Loaded /\ left = MaxEvents /\ probe = NoProbe

\* init()
init ==
    /\ pc = "load"
    /\ pc' = "run"
    /\ LET savedToken == getItem(storage)
       IN  IF ~Falsy(savedToken)
           THEN /\ token' = savedToken
                /\ inflight' = Issue(inflight, <<MeCall(token', "init")>>)
                /\ UNCHANGED display
           ELSE /\ display' = showPage(display, "auth-container")
                /\ UNCHANGED <<token, inflight>>
    /\ UNCHANGED <<userRole, storage, message, tables, left, probe>>

\* ---------------------------------------------------------------------------
\* Authentication
\* ---------------------------------------------------------------------------

\* A user event the script handles: within the budget, after init() has run.
UserEvent ==
    /\ pc = "run"
    /\ left > 0
    /\ left' = left - 1

\* Submit of register-form: up to its `await fetch`.
RegisterSubmit ==
    /\ UserEvent
    /\ Visible("auth-container")
    /\ inflight' = Issue(Disturb(inflight, "user"),
                         <<RawCall("register", "application/json", "json")>>)
    /\ UNCHANGED <<pc, token, userRole, storage, display, message, tables,
                   probe>>

\* Submit of register-form: after its awaits.  The click on show-login and
\* the reset of the form change the login and register cards only, which no
\* other handler reads.
RegisterResolveOf(c, response) ==
    LET result == RawFetch(response, "Failed to register")
    IN  /\ inflight' = Take(inflight, c)
        /\ IF result.tag = "throw"
           THEN message' = showMessage(result.message, "error")
           ELSE message' = showMessage("Registration successful! Please log in.",
                                       "success")
        /\ UNCHANGED <<pc, token, userRole, storage, display, tables, left,
                       probe>>

RegisterResolve ==
    \E c \in BagToSet(inflight) :
        /\ c.kind = "register"
        /\ \E response \in ResponsesTo("register") : RegisterResolveOf(c, response)

\* Submit of login-form: up to its `await fetch`.
LoginSubmit ==
    /\ UserEvent
    /\ Visible("auth-container")
    /\ inflight' = Issue(Disturb(inflight, "user"),
                         <<RawCall("token", "application/x-www-form-urlencoded",
                                   "form")>>)
    /\ UNCHANGED <<pc, token, userRole, storage, display, message, tables,
                   probe>>

\* Submit of login-form: after its awaits, up to the await of
\* loadUserDashboard().
TokenResolveOf(c, response) ==
    LET result == RawFetch(response, "Failed to log in")
        rest == Disturb(Take(inflight, c), "net")
    IN  /\ IF result.tag = "throw"
           THEN /\ message' = showMessage(result.message, "error")
                /\ inflight' = rest
                /\ UNCHANGED <<token, storage>>
           ELSE /\ token' = result.value.access_token
                /\ storage' = setItem(storage, token')
                /\ inflight' = Issue(rest, <<MeCall(token', "login")>>)
                /\ UNCHANGED message
        /\ UNCHANGED <<pc, userRole, display, tables, left, probe>>

TokenResolve ==
    \E c \in BagToSet(inflight) :
        /\ c.kind = "token"
        /\ \E response \in ResponsesTo("token") : TokenResolveOf(c, response)

\* Click on logout-button.
LogoutClick ==
    /\ UserEvent
    /\ Visible("logout-button")
    /\ token' = Null
    /\ userRole' = Null
    /\ storage' = removeItem(storage)
    /\ message' = showMessage("You have been logged out.", "success")
    /\ display' = showPage(display, "auth-container")
    /\ inflight' = Disturb(inflight, "user")
    /\ UNCHANGED <<pc, tables, probe>>

\* The branch on 'student' instead of 'admin': a faulty variant, to compare DashboardOf with.
DashboardOfRole(role) ==
    IF role = "student" THEN "student-dashboard" ELSE "admin-dashboard"

\* The page loadUserDashboard() shows for a role, and the lists it loads.
DashboardOf(role) ==
    IF role = "admin" THEN "admin-dashboard" ELSE "student-dashboard"

DashboardLoads(role) == IF role = "admin" THEN loadAdminData ELSE loadStudentData

\* loadUserDashboard() after its await.  A null result (HTTP 204) throws on
\* the read of its role.
MeResolveOf(c, response) ==
    LET result == ApiFetch(response)
        rest == Disturb(Take(inflight, c), "net")
        role == result.value.role
    IN  /\ IF result.tag # "json"
           THEN /\ message' = showMessage(IF result.tag = "throw" THEN result.message
                                          ELSE NullTypeError, "error")
                /\ token' = Null
                /\ storage' = removeItem(storage)
                /\ display' = showPage(display, "auth-container")
                /\ inflight' = rest
                /\ UNCHANGED userRole
           ELSE /\ userRole' = role
                /\ display' = showPage(display, DashboardOf(role))
                /\ inflight' = Issue(rest, LoadsCalls(DashboardLoads(role), token))
                /\ message' = showMessage("Login successful!", "success")
                /\ UNCHANGED <<token, storage>>
        /\ UNCHANGED <<pc, tables, left, probe>>

MeResolve ==
    \E c \in BagToSet(inflight) :
        /\ c.kind = "me"
        /\ \E response \in ResponsesTo("me") : MeResolveOf(c, response)

\* ---------------------------------------------------------------------------
\* List loads
\* ---------------------------------------------------------------------------

\* What a list function writes into its table from a fetched list.
RenderList(kind, tbody, list) ==
    CASE kind = "equipment" -> RenderStudentEquipment(tbody, list)
      [] kind = "my-requests" -> RenderStudentRequests(tbody, list)
      [] kind = "pending" -> RenderAdminPending(tbody, list)
      [] kind = "inventory" -> RenderAdminInventory(tbody, list)

\* loadStudentEquipment, loadStudentRequests, loadAdminPending and
\* loadAdminInventory after their await.  A null result (HTTP 204) clears the
\* table and then throws on the read of its length.
ListResolveOf(c, response) ==
    LET result == ApiFetch(response)
        tbody == TableOf(c.kind)
    IN  /\ inflight' = Take(inflight, c)
        /\ CASE result.tag = "throw" ->
                    /\ message' = showMessage(result.message, "error")
                    /\ UNCHANGED tables
             [] result.tag = "null" ->
                    /\ message' = showMessage(NullTypeError, "error")
                    /\ tables' = [tables EXCEPT ![tbody] = <<>>]
             [] result.tag = "json" ->
                    /\ tables' = [tables EXCEPT
                           ![tbody] = RenderList(c.kind, @, result.value.list)]
                    /\ UNCHANGED message
        /\ UNCHANGED <<pc, token, userRole, storage, display, left, probe>>

ListResolve ==
    \E c \in BagToSet(inflight) :
        /\ c.kind \in ListKinds
        /\ \E response \in ResponsesTo(c.kind) : ListResolveOf(c, response)

\* Promise.allSettled in place of Promise.all: never rejected: a faulty variant, to compare PromiseAll with.
PromiseAllSettled(parts) ==
    IF \E p \in ReportParts : parts[p].st = "pending" THEN "pending" ELSE "fulfilled"

\* await Promise.all([...]) over the three report fetches: rejected as soon
\* as one fetch has failed, fulfilled once all three have a value.
PromiseAll(parts) ==
    IF \E p \in ReportParts : parts[p].st = "fail" THEN "rejected"
    ELSE IF \E p \in ReportParts : parts[p].st = "pending" THEN "pending"
    ELSE "fulfilled"

\* loadAdminReports after Promise.all fulfilled: the three tables in turn.  A
\* value that is no array (the null of an HTTP 204) throws at its forEach,
\* after its table was cleared and before the later tables are touched.
RenderReports(tbs, parts) ==
    LET t1 == [tbs EXCEPT !["overdue-tbody"] =
                   IF parts["overdue"].st = "ok"
                   THEN RenderOverdue(@, parts["overdue"].list) ELSE <<>>]
        t2 == [t1 EXCEPT !["repairs-tbody"] =
                   IF parts["repairs"].st = "ok"
                   THEN RenderRepairs(@, parts["repairs"].list) ELSE <<>>]
        t3 == [t2 EXCEPT !["analytics-tbody"] =
                   IF parts["analytics"].st = "ok"
                   THEN RenderAnalytics(@, parts["analytics"].list) ELSE <<>>]
    IN  IF parts["overdue"].st # "ok" THEN [tables |-> t1, threw |-> TRUE]
        ELSE IF parts["repairs"].st # "ok" THEN [tables |-> t2, threw |-> TRUE]
        ELSE IF parts["analytics"].st # "ok" THEN [tables |-> t3, threw |-> TRUE]
        ELSE [tables |-> t3, threw |-> FALSE]

\* The fetch of report list p of call c resolves.
PartOf(result) ==
    CASE result.tag = "throw" -> Part("fail", <<>>)
      [] result.tag = "null" -> Part("null", <<>>)
      [] result.tag = "json" -> Part("ok", result.value.list)

\* One of the three fetches of loadAdminReports resolves.  After Promise.all
\* has rejected the remaining fetches resolve unheard, and the values it held
\* are dropped: nothing reads them.
ReportsResolveOf(c, p, response) ==
    LET result == ApiFetch(response)
        parts == [c.parts EXCEPT ![p] = PartOf(result)]
        state == IF c.settled THEN "settled" ELSE PromiseAll(parts)
        dropped == [q \in ReportParts |->
                       IF parts[q].st = "pending" THEN parts[q] ELSE Part("fail", <<>>)]
        waiting == \E q \in ReportParts : parts[q].st = "pending"
        kept == IF state = "pending"
                THEN SetToBag({[c EXCEPT !.parts = parts]})
                ELSE IF waiting
                     THEN SetToBag({[c EXCEPT !.parts = dropped, !.settled = TRUE]})
                     ELSE EmptyBag
        rendered == RenderReports(tables, parts)
    IN  /\ inflight' = Take(inflight, c) (+) kept
        /\ CASE state \in {"settled", "pending"} ->
                    UNCHANGED <<message, tables>>
             [] state = "rejected" ->
                    /\ message' = showMessage(result.message, "error")
                    /\ UNCHANGED tables
             [] state = "fulfilled" ->
                    /\ tables' = rendered.tables
                    /\ IF rendered.threw
                       THEN message' = showMessage(NullTypeError, "error")
                       ELSE UNCHANGED message
        /\ UNCHANGED <<pc, token, userRole, storage, display, left, probe>>

ReportsResolve ==
    \E c \in BagToSet(inflight), p \in ReportParts :
        /\ c.kind = "reports"
        /\ c.parts[p].st = "pending"
        /\ \E response \in ResponsesTo(p) : ReportsResolveOf(c, p, response)

\* ---------------------------------------------------------------------------
\* Mutating actions
\* ---------------------------------------------------------------------------

\* The controls of a table body, rows in order.
Controls(tbody) ==
    LET Add(acc, row) == acc \o row.controls
    IN  SeqFold(Add, <<>>, tbody)

\* The arguments of the enabled buttons of a table whose onclick is call.
ButtonArgs(tbody, call) ==
    LET cs == Controls(tbody)
    IN  {cs[i].arg : i \in {j \in 1..Len(cs) :
                              /\ cs[j].tag = "button"
                              /\ cs[j].call = call
                              /\ ~cs[j].disabled}}

\* document.getElementById(`return-date-${requestId}`).value: the first
\* element of that id.
InputValue(tbody, requestId) ==
    LET cs == Controls(tbody)
        at == {j \in 1..Len(cs) : cs[j].tag = "input" /\ cs[j].arg = requestId}
        first == CHOOSE j \in at : \A k \in at : j <= k
    IN  cs[first].value

\* The table body after the user typed value into the return-date input of a
\* pending request.
WithInput(tbody, requestId, value) ==
    [i \in 1..Len(tbody) |->
        [tbody[i] EXCEPT !.controls =
            [j \in 1..Len(@) |->
                IF @[j].tag = "input" /\ @[j].arg = requestId
                THEN [@[j] EXCEPT !.value = value]
                ELSE @[j]]]]

\* What the user may type into a return-date input.
DateValues == {"", "2024-02-03"}

\* A handler up to its `await apiFetch(...)`: one call leaves.
Start(kind, body) ==
    /\ inflight' = Issue(Disturb(inflight, "user"), <<ApiCall(kind, token, body)>>)
    /\ UNCHANGED <<pc, token, userRole, storage, display, message, tables,
                   probe>>

\* A handler that returns before any call.
Abort ==
    /\ inflight' = Disturb(inflight, "user")
    /\ UNCHANGED <<pc, token, userRole, storage, display, tables, probe>>

\* requestItem(equipmentId)
requestItem ==
    /\ UserEvent
    /\ Visible("student-dashboard")
    /\ \E equipmentId \in ButtonArgs(tables["equipment-list-tbody"], "requestItem") :
           Start("request", "json")

\* returnItem(requestId)
returnItem ==
    /\ UserEvent
    /\ Visible("student-dashboard")
    /\ \E requestId \in ButtonArgs(tables["my-requests-tbody"], "returnItem") :
           Start("return", Absent)

\* reportDamage returning only on a cancelled prompt: a faulty variant, to compare DescriptionMissing with.
DescriptionMissingOnCancel(description) == description = Null

\* The guard of reportDamage: `if (!description) return;`.
DescriptionMissing(description) == Falsy(description)

\* reportDamage(equipmentId), with what prompt() returned: null when the
\* user cancelled.
reportDamageOf(equipmentId, description) ==
    IF DescriptionMissing(description)
    THEN Abort /\ UNCHANGED message
    ELSE Start("report-damage", "json")

reportDamage ==
    /\ UserEvent
    /\ Visible("student-dashboard")
    /\ \E equipmentId \in ButtonArgs(tables["my-requests-tbody"], "reportDamage"),
          description \in {Null, "", "cracked"} :
           reportDamageOf(equipmentId, description)

\* The user types into the return-date input of a pending request: no
\* handler of the script runs, so the edit does not count as an event the
\* script handles; it is followed while such an event may still come.
EditReturnDate ==
    /\ pc = "run"
    /\ left > 0
    /\ Visible("admin-dashboard")
    /\ \E requestId \in ButtonArgs(tables["admin-pending-tbody"], "adminApprove"),
          value \in DateValues :
           /\ value # InputValue(tables["admin-pending-tbody"], requestId)
           /\ tables' = [tables EXCEPT
                  !["admin-pending-tbody"] = WithInput(@, requestId, value)]
    /\ inflight' = Disturb(inflight, "user")
    /\ UNCHANGED <<pc, token, userRole, storage, display, message, left, probe>>

\* adminApprove without its guard: a faulty variant, to compare ReturnDateMissing with.
ReturnDateMissingNever(returnDate) == FALSE

\* The guard of adminApprove: `if (!returnDate)`.
ReturnDateMissing(returnDate) == Falsy(returnDate)

\* adminApprove(requestId)
adminApproveOf(requestId) ==
    LET returnDate == InputValue(tables["admin-pending-tbody"], requestId)
    IN  IF ReturnDateMissing(returnDate)
        THEN /\ message' = showMessage("Please set a return date.", "error")
             /\ Abort
        ELSE Start("approve", "json")

adminApprove ==
    /\ UserEvent
    /\ Visible("admin-dashboard")
    /\ \E requestId \in ButtonArgs(tables["admin-pending-tbody"], "adminApprove") :
           adminApproveOf(requestId)

\* adminReject(requestId)
adminReject ==
    /\ UserEvent
    /\ Visible("admin-dashboard")
    /\ \E requestId \in ButtonArgs(tables["admin-pending-tbody"], "adminReject") :
           Start("reject", Absent)

\* Submit of add-equipment-form: up to its await.
AddEquipmentSubmit ==
    /\ UserEvent
    /\ Visible("admin-dashboard")
    /\ Start("add-equipment", "json")

\* adminDeleteItem(equipmentId): confirm() may be declined.
adminDeleteItem ==
    /\ UserEvent
    /\ Visible("admin-dashboard")
    /\ \E equipmentId \in ButtonArgs(tables["admin-inventory-tbody"], "adminDeleteItem"),
          confirmed \in BOOLEAN :
           IF ~confirmed
           THEN Abort /\ UNCHANGED message
           ELSE Start("delete", Absent)

\* Click on check-overdue-btn: up to its await.
CheckOverdueClick ==
    /\ UserEvent
    /\ Visible("admin-dashboard")
    /\ Start("check-overdue", Absent)

\* adminCompleteRepair(repairId)
adminCompleteRepair ==
    /\ UserEvent
    /\ Visible("admin-dashboard")
    /\ \E repairId \in ButtonArgs(tables["repairs-tbody"], "adminCompleteRepair") :
           Start("complete-repair", Absent)

\* The list function an admin tab loads.
TabLoad(tab) ==
    CASE tab = "pending" -> "pending"
      [] tab = "equipment" -> "inventory"
      [] tab = "reports" -> "reports"

\* Click on an admin tab: its data loads.  The 'active' classes the handler
\* moves select which tab the style sheet shows; no handler reads them.
TabClick ==
    /\ UserEvent
    /\ Visible("admin-dashboard")
    /\ \E tab \in Tabs :
           inflight' = Issue(Disturb(inflight, "user"), <<LoadCall(TabLoad(tab), token)>>)
    /\ UNCHANGED <<pc, token, userRole, storage, display, message, tables, probe>>

\* A mutating handler after its await: the message, then the reloads.  The
\* check-overdue handler reads the length of the body, which throws on the
\* null of an HTTP 204.
ActionThrows(c, result) ==
    \/ result.tag = "throw"
    \/ c.kind = "check-overdue" /\ result.tag = "null"

ActionResolveOf(c, response) ==
    LET result == ApiFetch(response)
    IN  /\ IF ActionThrows(c, result)
           THEN /\ message' = showMessage(IF result.tag = "throw" THEN result.message
                                          ELSE NullTypeError, "error")
                /\ inflight' = Take(inflight, c)
           ELSE /\ message' = showMessage(SuccessText(c.kind, result.value), "success")
                /\ inflight' = Issue(Take(inflight, c),
                                     LoadsCalls(Reloads(c.kind), token))
        /\ UNCHANGED <<pc, token, userRole, storage, display, tables, left,
                       probe>>

ActionResolve ==
    \E c \in BagToSet(inflight) :
        /\ c.kind \in ActionKinds
        /\ \E response \in ResponsesTo(c.kind) : ActionResolveOf(c, response)

\* ---------------------------------------------------------------------------
\* Specifications
\* ---------------------------------------------------------------------------

\* Every handler of the script.
Next ==
    \/ init
    \/ RegisterSubmit
    \/ RegisterResolve
    \/ LoginSubmit
    \/ TokenResolve
    \/ LogoutClick
    \/ MeResolve
    \/ ListResolve
    \/ ReportsResolve
    \/ requestItem
    \/ returnItem
    \/ reportDamage
    \/ EditReturnDate
    \/ adminApprove
    \/ adminReject
    \/ AddEquipmentSubmit
    \/ adminDeleteItem
    \/ CheckOverdueClick
    \/ adminCompleteRepair
    \/ TabClick
    \/ ActionResolve

Spec == Init /\ [][Next]_vars

\* Logging in and out at length: the runs in which the user only registers,
\* logs in and logs out, and the list endpoints have not answered yet.
InitSession == Loaded /\ left = MaxSessionEvents /\ probe = NoProbe

NextSession ==
    \/ init
    \/ RegisterSubmit
    \/ RegisterResolve
    \/ LoginSubmit
    \/ TokenResolve
    \/ LogoutClick
    \/ MeResolve

SpecSession == InitSession /\ [][NextSession]_vars

\* The transport on its own: apiFetch applied to one response, any of
\* ProbeResponses.
ProbeStatuses == {200, 201, 204, 299, 300, 400, 401, 404, 422, 500, 502}

ProbeDetails == {Absent, "bad input", "Not found"}

ProbeBodies ==
    {Body(d, l, Absent, r) : d \in ProbeDetails, l \in {<<>>, <<Ball>>},
                             r \in {Absent, "student"}}

\* A body that does not parse (an empty body, a plain-text or HTML error page)
\* has no parsed value.
ProbeResponses ==
    {Response(st, TRUE, b) : st \in ProbeStatuses, b \in ProbeBodies}
    \cup {Response(st, FALSE, NoBody) : st \in ProbeStatuses}

InitFetch ==
    /\ Loaded
    /\ left = 0
    /\ \E response \in ProbeResponses :
           probe = [NoProbe EXCEPT !.response = response]

\* apiFetch(endpoint, options) from the response on.
apiFetch ==
    /\ ~probe.done
    /\ probe' = [probe EXCEPT !.result = ApiFetch(probe.response), !.done = TRUE]
    /\ UNCHANGED <<pc, token, userRole, storage, display, message, tables,
                   inflight, left>>

NextFetch == apiFetch

SpecFetch == InitFetch /\ [][NextFetch]_vars

\* ---------------------------------------------------------------------------
\* The dates of requestItem on their own
\* ---------------------------------------------------------------------------

\* A calendar date, and a Date object: the instant it holds as its UTC date
\* and UTC hour.
Day(y, m, d) == [y |-> y, m |-> m, d |-> d]

Instant(date, hour) == [date |-> date, hour |-> hour]

LeapYear(y) == (y % 4 = 0 /\ y % 100 # 0) \/ y % 400 = 0

DaysInMonth(y, m) ==
    CASE m = 2 -> IF LeapYear(y) THEN 29 ELSE 28
      [] m \in {4, 6, 9, 11} -> 30
      [] OTHER -> 31

RECURSIVE MakeDay(_, _, _)
\* The date of year y, month m and day-of-month d, where d may lie outside
\* the month: the days carry into the following or preceding months, as in
\* setDate().
MakeDay(y, m, d) ==
    IF d > DaysInMonth(y, m)
    THEN IF m = 12 THEN MakeDay(y + 1, 1, d - DaysInMonth(y, m))
         ELSE MakeDay(y, m + 1, d - DaysInMonth(y, m))
    ELSE IF d < 1
         THEN IF m = 1 THEN MakeDay(y - 1, 12, d + DaysInMonth(y - 1, 12))
              ELSE MakeDay(y, m - 1, d + DaysInMonth(y, m - 1))
         ELSE Day(y, m, d)

\* An hour count outside 0..23 carries into the date.
MakeInstant(date, hour) ==
    IF hour >= 24 THEN Instant(MakeDay(date.y, date.m, date.d + 1), hour - 24)
    ELSE IF hour < 0 THEN Instant(MakeDay(date.y, date.m, date.d - 1), hour + 24)
    ELSE Instant(date, hour)

\* a is earlier than b (two instants, or two local times).
Earlier(a, b) ==
    LET x == <<a.date.y, a.date.m, a.date.d, a.hour>>
        y == <<b.date.y, b.date.m, b.date.d, b.hour>>
    IN  \E i \in 1..4 : x[i] < y[i] /\ \A j \in 1..(i - 1) : x[j] = y[j]

\* The browser's time zone: std hours east of UTC, and dst hours from the
\* instant `from` on (the clocks go forward in spring); a zone without
\* daylight saving has dst = std.
Zone(std, dst, from) == [std |-> std, dst |-> dst, from |-> from]

\* The local date and hour of an instant.
LocalTime(t, zone) ==
    MakeInstant(t.date, t.hour + (IF Earlier(t, zone.from) THEN zone.std ELSE zone.dst))

\* The instant of a local date and hour.  A local time the forward change
\* skips is read with the offset before the change.
FromLocal(local, zone) ==
    LET change == MakeInstant(zone.from.date, zone.from.hour + zone.dst)
    IN  MakeInstant(local.date,
                    local.hour - (IF Earlier(local, change) THEN zone.std ELSE zone.dst))

\* Two decimal digits.
Pad2(n) == IF n < 10 THEN "0" \o ToString(n) ELSE ToString(n)

\* today.toISOString().split('T')[0]: the UTC date, as YYYY-MM-DD.
IsoDate(t) ==
    ToString(t.date.y) \o "-" \o Pad2(t.date.m) \o "-" \o Pad2(t.date.d)

\* today.setDate(today.getDate() + days): the day of the month is read and
\* set in local time; the time of day stays.
setDate(t, zone, days) ==
    LET local == LocalTime(t, zone)
    IN  FromLocal(Instant(MakeDay(local.date.y, local.date.m, local.date.d + days),
                          local.hour), zone)

\* The two dates requestItem puts into its request, for `new Date()` = today
\* in a browser of a time zone.
requestItemDates(today, zone) ==
    LET borrowDate == IsoDate(today)
        returnDate == IsoDate(setDate(today, zone, 5))
    IN  [borrow_date |-> borrowDate, expected_return_date |-> returnDate]

\* The clocks the dates are computed for: the days from 25 December 2023 to
\* 12 March 2024 (a year's end, a January's end, a leap February, the start
\* of daylight saving in North America), hours through the day, and time
\* zones west and east of UTC: Los Angeles and New York (daylight saving
\* from 10 March 2024, 2 a.m. local), UTC, Lagos, Tokyo.
ProbeDays == {MakeDay(2023, 12, 25 + n) : n \in 0..78}

ProbeHours == {0, 3, 12, 19, 23}

NoChange == Instant(Day(9999, 1, 1), 0)

ProbeZones ==
    {Zone(-8, -7, Instant(Day(2024, 3, 10), 10)),
     Zone(-5, -4, Instant(Day(2024, 3, 10), 7)),
     Zone(0, 0, NoChange), Zone(1, 1, NoChange), Zone(9, 9, NoChange)}

NoDates == [borrow_date |-> "", expected_return_date |-> ""]

InitDates ==
    /\ Loaded
    /\ left = 0
    /\ \E date \in ProbeDays, hour \in ProbeHours, zone \in ProbeZones :
           probe = [today |-> Instant(date, hour), zone |-> zone,
                    body |-> NoDates, done |-> FALSE]

\* requestItem(equipmentId) up to its body.
requestItemBody ==
    /\ ~probe.done
    /\ probe' = [probe EXCEPT !.body = requestItemDates(probe.today, probe.zone),
                              !.done = TRUE]
    /\ UNCHANGED <<pc, token, userRole, storage, display, message, tables, inflight,
                   left>>

NextDates == requestItemBody

SpecDates == InitDates /\ [][NextDates]_vars

\* ---------------------------------------------------------------------------
\* The list renderings alone
\* ---------------------------------------------------------------------------

\* The lifecycle states of a borrow request.
RequestStatuses == {"pending", "approved", "rejected", "returned", "overdue"}

\* The rendering of the table of each list, the three report lists included.
RenderTable(kind, tbody, list) ==
    CASE kind \in ListKinds -> RenderList(kind, tbody, list)
      [] kind = "overdue" -> RenderOverdue(tbody, list)
      [] kind = "repairs" -> RenderRepairs(tbody, list)
      [] kind = "analytics" -> RenderAnalytics(tbody, list)

\* The lists rendered: none, one or two elements, and for the student's own
\* requests every combination of statuses.
ProbeLists(kind) ==
    IF kind = "my-requests"
    THEN {<<>>}
         \cup {<<BorrowRequest(s)>> : s \in RequestStatuses}
         \cup {<<BorrowRequest(s), BorrowRequest(t)>> : s, t \in RequestStatuses}
    ELSE {<<>>} \cup ListsOf(kind) \cup {l \o l : l \in ListsOf(kind)}

\* What a table may hold before a rendering: nothing, the placeholder of an empty
\* list, or the rows of an earlier list.
ProbeTables ==
    LET stale == TableRow(<<"7", "Ball", "Sports">>,
                          <<Button("Delete", "adminDeleteItem", 7, FALSE)>>)
    IN  {<<>>, <<Placeholder("You have no requests.")>>, <<stale>>, <<stale, stale>>}

InitRender ==
    /\ Loaded
    /\ left = 0
    /\ \E kind \in ListKinds \cup ReportParts :
           \E tbody \in ProbeTables, list \in ProbeLists(kind) :
               probe = [kind |-> kind, list |-> list, prior |-> tbody,
                        tbody |-> tbody, renders |-> 0]

\* The list is rendered into the table, at most twice in a row.
render ==
    /\ probe.renders < 2
    /\ probe' = [probe EXCEPT !.tbody = RenderTable(probe.kind, @, probe.list),
                              !.renders = @ + 1]
    /\ UNCHANGED <<pc, token, userRole, storage, display, message, tables, inflight,
                   left>>

NextRender == render

SpecRender == InitRender /\ [][NextRender]_vars

\* ---------------------------------------------------------------------------
\* The student dashboard alone
\* ---------------------------------------------------------------------------

\* The user events followed on the student dashboard.
MaxStudentEvents == 2

InitStudent == Loaded /\ left = MaxStudentEvents /\ probe = NoProbe

\* The page is loaded with or without a saved token; the user requests,
\* returns, reports damage and logs out, and the calls are answered in any
\* order.
NextStudent ==
    \/ init
    \/ MeResolve
    \/ ListResolve
    \/ requestItem
    \/ returnItem
    \/ reportDamage
    \/ ActionResolve
    \/ LogoutClick

SpecStudent == InitStudent /\ [][NextStudent]_vars

\* ---------------------------------------------------------------------------
\* Properties
\* ---------------------------------------------------------------------------

\* pageId is the one page on display in d: it is shown, the other two pages
\* are hidden, and the logout button is shown exactly off the auth page.
OnlyPage(d, pageId) ==
    /\ d[pageId] = "block"
    /\ \A other \in Pages \ {pageId} : d[other] = "none"
    /\ d["logout-button"] = (IF pageId # "auth-container" THEN "block" ELSE "none")

\* The script has set a display style: only showPage does (through
\* hideAllPages and on its own).
ShowPageCalled == \E e \in Elements : display[e] # "unset"

\* The calls in flight of a kind.
CallsOf(kinds) == {c \in BagToSet(inflight) : c.kind \in kinds}

\* The step answers call c: one copy of it is no longer in flight.
Answered(c) == CopiesIn(c, inflight') < CopiesIn(c, inflight)

\* C1: in every state after the first call of showPage exactly one of the
\* three pages is displayed, and the logout button is displayed exactly when
\* that page is not the auth page.
C1_OnePageDisplayed ==
    ShowPageCalled => \E pageId \in Pages : OnlyPage(display, pageId)

\* showPage has run more than once: a dashboard was shown, and after the
\* logout the auth page is.
C1_Witness ==
    /\ message.text = "You have been logged out."
    /\ OnlyPage(display, "auth-container")
    /\ left < MaxEvents

\* The page the claim expects for a role.
ExpectedPage(role) ==
    IF role = "admin" THEN "admin-dashboard" ELSE "student-dashboard"

\* C2 as stated: when the role lookup that a login started succeeds with no
\* user event since the /token response, the stored token is the one that
\* response carried and the page on display is the dashboard of the role.
C2_AsStated ==
    [][\A c \in CallsOf({"me"}), response \in ResponsesTo("me") :
          (/\ Answered(c)
           /\ c.origin = "login"
           /\ c.since # "user"
           /\ ResponseOk(response)
           /\ MeResolveOf(c, response))
          => /\ storage' = c.tok
             /\ OnlyPage(display', ExpectedPage(response.body.role))]_vars

\* C2: when the role lookup that a login started succeeds, with no user event
\* and no response to another /token or /users/me/ call since the /token
\* response, the stored token is the one that response carried and the page
\* on display is the dashboard of the role: admin for admin, student for
\* every other role.
C2_LoginReachesDashboard ==
    [][\A c \in CallsOf({"me"}), response \in ResponsesTo("me") :
          (/\ Answered(c)
           /\ c.origin = "login"
           /\ c.since = "none"
           /\ ResponseOk(response)
           /\ MeResolveOf(c, response))
          => /\ storage' = c.tok
             /\ token' = c.tok
             /\ OnlyPage(display', ExpectedPage(response.body.role))]_vars

\* A login went through: the token is one only a /token response brings, and
\* a teacher is on the student dashboard.
C2_Witness ==
    /\ message.text = "Login successful!"
    /\ token = "t2"
    /\ storage = "t2"
    /\ userRole = "teacher"
    /\ OnlyPage(display, "student-dashboard")
    /\ left = MaxSessionEvents - 1

\* The role lookup of loadUserDashboard() is answered with a failure.
LookupFails ==
    \E c \in CallsOf({"me"}), response \in ResponsesTo("me") :
        Answered(c) /\ ~ResponseOk(response) /\ MeResolveOf(c, response)

\* C3: when the role lookup fails, and when the logout handler runs, the
\* credential in memory becomes null, the stored token is removed and the
\* auth page becomes the page on display.
C3_CredentialCleared ==
    [][(LookupFails \/ LogoutClick)
          => /\ token' = Null
             /\ storage' = Null
             /\ OnlyPage(display', "auth-container")]_vars

\* The lookup that init() started for a saved token has failed: no user event
\* yet, its error on display, the user back on the auth page.
C3_Witness ==
    /\ pc = "run"
    /\ left = MaxEvents
    /\ message.type = "error"
    /\ token = Null
    /\ storage = Null
    /\ OnlyPage(display, "auth-container")

\* A call other than the role lookup is answered with a failure: /token,
\* /register/, a list, one of the three report lists, a mutating action.
OtherCallFails ==
    \E c \in {call \in BagToSet(inflight) : Answered(call)}, response \in ErrorResponses :
        \/ c.kind = "token" /\ TokenResolveOf(c, response)
        \/ c.kind = "register" /\ RegisterResolveOf(c, response)
        \/ c.kind \in ListKinds /\ ListResolveOf(c, response)
        \/ c.kind \in ActionKinds /\ ActionResolveOf(c, response)
        \/ /\ c.kind = "reports"
           /\ \E p \in ReportParts :
                  c.parts[p].st = "pending" /\ ReportsResolveOf(c, p, response)

\* C4: a failure of any call but the role lookup leaves the page on display,
\* the credential in memory and the stored credential as they were; of what
\* the user sees only the message area changes.
C4_FailureKeepsSession ==
    [][OtherCallFails
          => UNCHANGED <<display, token, userRole, storage, tables>>]_vars

\* A call failed while a dashboard was on display: its error is shown, the
\* user is still on the dashboard and still holds the credential.
C4_Witness ==
    /\ message.type = "error"
    /\ OnlyPage(display, "student-dashboard")
    /\ token = "t1"
    /\ storage = "t1"
    /\ inflight = EmptyBag
    /\ left = 0

\* The outcome C5 states for a response.
StatedOutcome(response) ==
    IF response.status \notin 200..299
    THEN Throw(IF response.body.detail = Absent THEN "An API error occurred"
               ELSE response.body.detail, TRUE)
    ELSE IF response.status = 204
         THEN Return("null", NoBody, FALSE)
         ELSE Return("json", response.body, TRUE)

\* C5 as stated: for every response apiFetch raises the detail of a non-2xx
\* body, or 'An API error occurred' when there is none; resolves to null on
\* HTTP 204 without parsing; and resolves to the parsed body on any other
\* 2xx status.
C5_AsStated ==
    probe.done => probe.result = StatedOutcome(probe.response)

\* A server error whose body is not JSON (a plain-text 500) has reached
\* apiFetch, and what it threw is the parser's error.
C5_Witness ==
    /\ probe.done
    /\ probe.response.status = 500
    /\ ~probe.response.parses
    /\ probe.result = Throw(JsonSyntaxError, TRUE)

\* C6 as stated: only the login handler and the logout handler change the
\* credential in memory.
C6_AsStated ==
    [][token' # token
          => \/ LogoutClick
             \/ \E c \in CallsOf({"token"}), response \in ResponsesTo("token") :
                    Answered(c) /\ TokenResolveOf(c, response)]_vars

\* C6: the credential in memory changes only in init() (the saved token is
\* restored), in the login handler on a successful /token response, in the
\* logout handler, and in loadUserDashboard() when the role lookup fails.
C6_TokenWriters ==
    [][token' # token
          => \/ init
             \/ LogoutClick
             \/ LookupFails
             \/ \E c \in CallsOf({"token"}), response \in ResponsesTo("token") :
                    Answered(c) /\ ResponseOk(response) /\ TokenResolveOf(c, response)]_vars

\* init() has restored the saved token, and no handler has run since.
C6_Witness ==
    /\ pc = "run"
    /\ token = "t1"
    /\ left = MaxEvents
    /\ message.text = ""
    /\ InFlight(inflight, "me") = 1

\* The lists C7 has each mutating action own.
OwnedLists(kind) ==
    CASE kind \in {"request", "return", "report-damage"} -> {"equipment", "my-requests"}
      [] kind \in {"approve", "reject"} -> {"pending"}
      [] kind \in {"add-equipment", "delete"} -> {"inventory"}
      [] kind \in {"check-overdue", "complete-repair"} -> ReportParts

\* The fetches of a kind that leave in a step.
Sent(kind) == InFlight(inflight', kind) - InFlight(inflight, kind)

\* C7: when the call of a mutating action succeeds, one fetch leaves for each
\* list the action owns and none for any other list; when it fails no fetch
\* leaves.
C7_OwnedListsRefetchedOnce ==
    [][\A c \in CallsOf(ActionKinds) : \A response \in ResponsesTo(c.kind) :
          (Answered(c) /\ ActionResolveOf(c, response))
          => \A list \in ListKinds \cup ReportParts :
                 Sent(list) = (IF ResponseOk(response) /\ list \in OwnedLists(c.kind)
                               THEN 1 ELSE 0)]_vars

\* An approval went through and the pending list is being fetched again.
C7_Witness ==
    /\ message.text = "Request approved."
    /\ InFlight(inflight, "pending") = 1
    /\ InFlight(inflight, "approve") = 0
    /\ left = 0

\* C8: a successful response to a list fetch, overtaken or not, leaves the
\* table with the complete render of that response; and whenever a table
\* changes (other than by the user typing into it) it becomes the complete
\* render of one response.
C8_LastResponseWins ==
    [][/\ \A c \in CallsOf(ListKinds) : \A response \in ResponsesTo(c.kind) :
             (Answered(c) /\ ResponseOk(response) /\ ListResolveOf(c, response))
             => tables'[TableOf(c.kind)] = RenderList(c.kind, <<>>, response.body.list)
       /\ \A kind \in ListKinds :
             tables'[TableOf(kind)] # tables[TableOf(kind)]
             => \/ kind = "pending" /\ EditReturnDate
                \/ \E list \in ListsOf(kind) :
                       tables'[TableOf(kind)] = RenderList(kind, <<>>, list)]_vars

\* Two fetches of the pending list overlapped and resolved out of order: the
\* later one has rendered, the earlier one is still to resolve.
C8_Witness ==
    /\ InFlight(inflight, "pending") = 1
    /\ \E c \in CallsOf({"pending"}) : c.overtaken
    /\ tables["admin-pending-tbody"] # <<>>

\* The three report tables.
ReportTables ==
    <<tables["overdue-tbody"], tables["repairs-tbody"], tables["analytics-tbody"]>>

\* C9: while one of the three fetches of loadAdminReports has failed or is
\* still out, no report table is touched; the first failure shows its error
\* and nothing else of that load shows a message; the tables are written when
\* the third fetch succeeds after two successes.
C9_ReportsAllOrNothing ==
    [][\A c \in CallsOf({"reports"}), p \in ReportParts : \A response \in ResponsesTo(p) :
          (/\ Answered(c)
           /\ c.parts[p].st = "pending"
           /\ \A after \in BagToSet(inflight') \ BagToSet(inflight) :
                  after.parts[p].st # "pending"
           /\ ReportsResolveOf(c, p, response))
          => LET failedBefore == \E q \in ReportParts : c.parts[q].st = "fail"
                 allOk == /\ ResponseOk(response)
                          /\ \A q \in ReportParts \ {p} : c.parts[q].st = "ok"
                 lists == [q \in ReportParts |->
                              IF q = p THEN response.body.list ELSE c.parts[q].list]
             IN  /\ ~allOk => UNCHANGED ReportTables
                 /\ allOk =>
                        ReportTables' = <<RenderOverdue(<<>>, lists["overdue"]),
                                          RenderRepairs(<<>>, lists["repairs"]),
                                          RenderAnalytics(<<>>, lists["analytics"])>>
                 /\ (~ResponseOk(response) /\ ~failedBefore)
                        => message' = showMessage(response.body.detail, "error")
                 /\ (ResponseOk(response) \/ failedBefore) => UNCHANGED message]_vars

\* One fetch of the reports has failed while another is still out: the error
\* is shown and the report tables are as they were loaded.
C9_Witness ==
    /\ \E c \in CallsOf({"reports"}) : c.settled
    /\ BagCardinality(inflight) = 1
    /\ message = showMessage("bad input", "error")
    /\ ReportTables = <<<<>>, <<>>, <<>>>>
    /\ OnlyPage(display, "admin-dashboard")

\* Every kind of call the script makes.
CallKinds == {"register", "token", "me"} \cup ListKinds \cup ReportParts \cup ActionKinds

\* C10: adminApprove on a request whose return-date input is empty sends no
\* call of any kind, shows 'Please set a return date.' and leaves every table
\* as it was.
C10_EmptyReturnDateBlocks ==
    [][\A requestId \in ButtonArgs(tables["admin-pending-tbody"], "adminApprove") :
          (/\ UserEvent
           /\ Visible("admin-dashboard")
           /\ InputValue(tables["admin-pending-tbody"], requestId) = ""
           /\ adminApproveOf(requestId))
          => /\ \A kind \in CallKinds : Sent(kind) = 0
             /\ message' = showMessage("Please set a return date.", "error")
             /\ UNCHANGED tables]_vars

\* The admin cleared the return date of a pending request and clicked
\* Approve: the validation message is shown and no approve call is out.
C10_Witness ==
    /\ message = showMessage("Please set a return date.", "error")
    /\ \E requestId \in ButtonArgs(tables["admin-pending-tbody"], "adminApprove") :
           InputValue(tables["admin-pending-tbody"], requestId) = ""
    /\ InFlight(inflight, "approve") = 0
    /\ left = 0

\* The days of a year, and the number of a date counted from 1 January 2022.
YearDays(y) == IF LeapYear(y) THEN 366 ELSE 365

RECURSIVE DaysBefore(_, _)
DaysBefore(y, m) ==
    IF m > 1 THEN DaysInMonth(y, m - 1) + DaysBefore(y, m - 1)
    ELSE IF y > 2022 THEN YearDays(y - 1) + DaysBefore(y - 1, 1)
    ELSE 0

DayNumber(date) == DaysBefore(date.y, date.m) + date.d

Calendar ==
    {date \in {Day(y, m, d) : y \in 2022..2025, m \in 1..12, d \in 1..31} :
        date.d <= DaysInMonth(date.y, date.m)}

\* The date n calendar days after a date.
LaterBy(date, n) == CHOOSE x \in Calendar : DayNumber(x) = DayNumber(date) + n

\* C11 as stated, with the current date read either way, as the date on the
\* user's clock or as the UTC date: borrow_date is the current date and
\* expected_return_date the date 5 calendar days after it.
C11_AsStated ==
    probe.done
    => \E current \in {LocalTime(probe.today, probe.zone).date, probe.today.date} :
           /\ probe.body.borrow_date = IsoDate(Instant(current, 0))
           /\ probe.body.expected_return_date = IsoDate(Instant(LaterBy(current, 5), 0))

\* In New York on the evening of 9 March 2024 the request goes out with a
\* borrow date of 10 March and a return date of 14 March.
C11_Witness ==
    /\ probe.done
    /\ probe.zone.std = -5
    /\ LocalTime(probe.today, probe.zone) = Instant(Day(2024, 3, 9), 19)
    /\ probe.body = [borrow_date |-> "2024-03-10", expected_return_date |-> "2024-03-14"]

\* C12: once a list has been rendered, its table holds what rendering that list
\* into an empty table gives, whatever the table held before, and rendering the
\* same list a second time leaves the table as the first rendering left it.
C12_RenderDependsOnListOnly ==
    [][render =>
           /\ probe'.tbody = RenderTable(probe.kind, <<>>, probe.list)
           /\ probe.renders = 1 => probe'.tbody = probe.tbody]_vars

\* A non-empty list has been rendered twice into a table that held other rows.
C12_Witness ==
    /\ probe.renders = 2
    /\ probe.kind \in {"my-requests", "inventory"}
    /\ Len(probe.prior) = 2
    /\ Len(probe.list) = 1
    /\ Len(probe.tbody) = 1

\* The role lookup that init() started is answered.
InitLookupAnswered(c, response) ==
    Answered(c) /\ c.origin = "init" /\ MeResolveOf(c, response)

\* C13: init() with no stored token sends no call and puts the auth page on
\* display; with a stored token it makes that token the credential in memory
\* and sends one /users/me/ call and nothing else.  When that call is answered
\* one page is on display: on success the dashboard of the role, on failure
\* the auth page, with the credential and the stored token cleared.
C13_InitRestoresSession ==
    [][/\ init =>
              IF storage = Null
              THEN /\ inflight' = EmptyBag
                   /\ token' = Null
                   /\ OnlyPage(display', "auth-container")
              ELSE /\ token' = storage
                   /\ BagCardinality(inflight') = 1
                   /\ \A c \in BagToSet(inflight') :
                          /\ c.kind = "me"
                          /\ c.headers.Authorization = "Bearer " \o storage
       /\ \A c \in CallsOf({"me"}), response \in ResponsesTo("me") :
              InitLookupAnswered(c, response) =>
                  IF ResponseOk(response)
                  THEN /\ OnlyPage(display', ExpectedPage(response.body.role))
                       /\ token' = c.tok
                  ELSE /\ OnlyPage(display', "auth-container")
                       /\ token' = Null
                       /\ storage' = Null]_vars

\* The lookup that init() started for a saved token has succeeded: no user
\* event yet, the admin dashboard on display, the saved token the credential.
C13_Witness ==
    /\ pc = "run"
    /\ left = MaxEvents
    /\ token = "t1"
    /\ storage = "t1"
    /\ userRole = "admin"
    /\ OnlyPage(display, "admin-dashboard")

\* C14: reportDamage with a cancelled prompt (null) or an empty description
\* returns at once: no call of any kind is sent, so no list is fetched again,
\* and the message area and the tables stay as they were.
C14_EmptyDescriptionAborts ==
    [][\A equipmentId \in ButtonArgs(tables["my-requests-tbody"], "reportDamage"),
          description \in {Null, ""} :
          (UserEvent /\ reportDamageOf(equipmentId, description))
          => /\ \A kind \in CallKinds : InFlight(inflight', kind) = InFlight(inflight, kind)
             /\ BagCardinality(inflight') = BagCardinality(inflight)
             /\ UNCHANGED <<message, tables, display, token, storage>>]_vars

\* The one event the student made was a report of damage given up at the
\* prompt: the event is spent, nothing is in flight, and the message is still
\* the one of the login.
C14_Witness ==
    /\ left = MaxEvents - 1
    /\ OnlyPage(display, "student-dashboard")
    /\ ButtonArgs(tables["my-requests-tbody"], "reportDamage") # {}
    /\ inflight = EmptyBag
    /\ message.text = "Login successful!"

\* A call as it is on the wire.
Request(c) == [kind |-> c.kind, headers |-> c.headers, body |-> c.body]

\* The requests that leave in the step.
Leaving ==
    LET before == BagOfAll(Request, inflight)
        after == BagOfAll(Request, inflight')
    IN  {r \in BagToSet(after) : CopiesIn(r, after) > CopiesIn(r, before)}

\* The calls made through apiFetch: all but /register/ and /token.
ApiKinds == CallKinds \ {"register", "token"}

\* C15: every request that leaves through apiFetch carries the header
\* Authorization: Bearer <token> with the credential in memory at the time of
\* the call, and carries Content-Type: application/json exactly when it has a
\* body.
C15_HeadersOfApiFetch ==
    [][\A r \in Leaving :
          r.kind \in ApiKinds \cup {"reports"}
          => /\ r.headers.Authorization = "Bearer " \o token'
             /\ r.headers.ContentType \in {"application/json", Absent}
             /\ r.headers.ContentType = "application/json" <=> r.body # Absent]_vars

\* Requests with and without a body have left through apiFetch with the token
\* of a login: a list fetch with no Content-Type and a borrow request with
\* one are in flight.
C15_Witness ==
    /\ token = "t1"
    /\ \E c \in CallsOf({"request", "add-equipment"}) :
           /\ c.body # Absent
           /\ c.headers = [Authorization |-> "Bearer t1", ContentType |-> "application/json"]
    /\ \E c \in CallsOf(ListKinds) :
           /\ c.body = Absent
           /\ c.headers = [Authorization |-> "Bearer t1", ContentType |-> Absent]

\* The credential in memory and the stored 'token' key agree: both absent, or
\* both the same token.
CredentialsAgree(tok, stored) ==
    \/ tok = Null /\ stored = Null
    \/ tok \in Tokens /\ stored = tok

\* C16: in every state after init() the credential in memory and the stored
\* 'token' key agree, and the stored key is removed only by the logout handler
\* and by a role lookup that fails.
C16_StoredTokenAgrees ==
    [][/\ pc' = "run" => CredentialsAgree(token', storage')
       /\ (storage # Null /\ storage' = Null) => (LogoutClick \/ LookupFails)]_vars

\* A login has replaced nothing with a token, in memory and in storage alike,
\* and the admin dashboard is on display.
C16_Witness ==
    /\ pc = "run"
    /\ token = "t2"
    /\ storage = "t2"
    /\ userRole = "admin"
    /\ OnlyPage(display, "admin-dashboard")

\* A dashboard is on display in d.
DashboardShown(d) == d["student-dashboard"] = "block" \/ d["admin-dashboard"] = "block"

\* C17 as stated: a dashboard is on display only while the credential in
\* memory is not null, and while the credential stays null (from a logout
\* until a login succeeds) the auth page stays on display, whatever role lookup
\* is answered meanwhile.
C17_AsStated ==
    [][/\ DashboardShown(display') => token' # Null
       /\ (/\ token = Null
           /\ token' = Null
           /\ OnlyPage(display, "auth-container"))
          => OnlyPage(display', "auth-container")]_vars

\* After two logins and a logout the answer to a role lookup sent before the
\* logout has put the admin dashboard on display: no credential in memory,
\* none stored.
C17_Witness ==
    /\ token = Null
    /\ storage = Null
    /\ userRole = "admin"
    /\ message.text = "Login successful!"
    /\ OnlyPage(display, "admin-dashboard")
    /\ left = MaxSessionEvents - 3

\* C18 as stated: no request leaves through apiFetch while the credential in
\* memory is null, so none carries 'Bearer null': not the list fetches either
\* that follow the answer to an action when the user has logged out meanwhile.
C18_AsStated ==
    [][\A r \in Leaving :
          r.kind \in ApiKinds \cup {"reports"}
          => /\ token' # Null
             /\ r.headers.Authorization # "Bearer null"]_vars

\* The student asked for an item and logged out before the answer: after the
\* answer the auth page is on display, the success of the request is shown and
\* a list fetch is in flight with 'Bearer null'.
C18_Witness ==
    /\ token = Null
    /\ left = MaxStudentEvents - 2
    /\ OnlyPage(display, "auth-container")
    /\ message.type = "success"
    /\ message.text # "You have been logged out."
    /\ \E c \in CallsOf({"equipment", "my-requests"}) :
           c.headers.Authorization = "Bearer null"

\* The row offers the button labelled label, which calls handler call on arg.
Offers(row, label, call, arg) ==
    \E k \in 1..Len(row.controls) :
        row.controls[k] = Button(label, call, arg, FALSE)

\* C19: the table of the student's own requests has one row for each request
\* of the list, in its order; the row offers Return exactly when the status of
\* the request is 'approved', and Report Damage exactly when its status is not
\* 'returned'.
C19_ButtonsFollowStatus ==
    (probe.renders > 0 /\ probe.kind = "my-requests" /\ probe.list # <<>>)
    => /\ Len(probe.tbody) = Len(probe.list)
       /\ \A i \in 1..Len(probe.list) :
              LET req == probe.list[i]
                  row == probe.tbody[i]
              IN  /\ Offers(row, "Return", "returnItem", req.request_id)
                         <=> req.status = "approved"
                  /\ Offers(row, "Report Damage", "reportDamage", req.equipment_id)
                         <=> req.status # "returned"
                  /\ \A k \in 1..Len(row.controls) :
                         row.controls[k].label \in {"Return", "Report Damage"}

\* A returned request and an approved one have been rendered: the first row
\* offers nothing, the second both buttons.
C19_Witness ==
    /\ probe.renders = 1
    /\ probe.kind = "my-requests"
    /\ probe.list = <<BorrowRequest("returned"), BorrowRequest("approved")>>
    /\ Len(probe.tbody) = 2
    /\ probe.tbody[1].controls = <<>>
    /\ Len(probe.tbody[2].controls) = 2

====
